---- MODULE Spec2Model ----
(***************************************************************************)
(* Model of src/pybind/mgr/cephadm/services/jaeger.py: the cephadm         *)
(* services of the tracing stack (elasticsearch, jaeger-agent,             *)
(* jaeger-collector, jaeger-query).                                        *)
(*                                                                         *)
(* Strings that the code builds, sorts, joins or splits are sequences of   *)
(* one-character strings, so that str(), build_url(), lstrip(), sorted(),  *)
(* ",".join() and split(",") are computed and not assumed.                 *)
(***************************************************************************)
EXTENDS Integers, Sequences, FiniteSets

VARIABLES
    cache,          \* mgr.cache: the daemon records, in the order the cache returns them
    active_specs,   \* mgr.spec_store.active_specs: service name -> TracingSpec
    lastOp,         \* the entry point that ran last on this snapshot
    arg,            \* the daemon_spec as it was passed to the last prepare_create
    daemon_spec,    \* the daemon_spec as the last prepare_create left it
    ret,            \* the list the last get_dependencies / get_elasticsearch_nodes returned
    err,            \* the error the last call raised, "none" if it returned
    inv_lookups,    \* hostnames the last call passed to mgr.inventory.get_addr
    spec_lookups,   \* service names the last call looked up in active_specs
    last_deps       \* what the preceding get_dependencies on this snapshot returned

vars == <<cache, active_specs, lastOp, arg, daemon_spec, ret, err,
          inv_lookups, spec_lookups, last_deps>>

(***************************************************************************)
(* Bounds                                                                  *)
(***************************************************************************)
MaxDaemons == 2

(***************************************************************************)
(* Values                                                                  *)
(***************************************************************************)
\* Python's None where a string is expected: no string of characters equals it
None == <<"None">>
\* no list was returned
NoRet == <<None>>

ElasticSearchTYPE == "elasticsearch"
JaegerAgentTYPE == "jaeger-agent"
JaegerCollectorTYPE == "jaeger-collector"
JaegerQueryTYPE == "jaeger-query"

ElasticSearchDEFAULT_SERVICE_PORT == 9200
JaegerCollectorDEFAULT_SERVICE_PORT == 14250

DaemonTypes == {ElasticSearchTYPE, JaegerAgentTYPE, JaegerCollectorTYPE, JaegerQueryTYPE}

\* The characters that occur, in ascending code point order.
Alphabet == <<",", ".", "/", "0", "1", "2", "3", "4", "5", "6", "7", "8", "9",
              ":", "a", "b", "h", "p", "t">>

Ord(c) == CHOOSE i \in 1..Len(Alphabet) : Alphabet[i] = c

Digits == <<"0", "1", "2", "3", "4", "5", "6", "7", "8", "9">>

Min(a, b) == IF a <= b THEN a ELSE b

(***************************************************************************)
(* Python built-ins the module uses                                        *)
(***************************************************************************)
\* str.__lt__: lexicographic comparison by code point
StrLess(s, t) ==
    LET n == Min(Len(s), Len(t))
        diff == {i \in 1..n : s[i] # t[i]}
    IN  IF diff = {}
        THEN Len(s) < Len(t)
        ELSE LET i == CHOOSE j \in diff : \A k \in diff : j <= k
             IN  Ord(s[i]) < Ord(t[i])

RECURSIVE insort(_, _)
\* insert x after the elements that are not greater than it (stable)
insort(x, s) ==
    IF s = <<>> THEN <<x>>
    ELSE IF StrLess(x, Head(s)) THEN <<x>> \o s
    ELSE <<Head(s)>> \o insort(x, Tail(s))

RECURSIVE sortedFrom(_, _)
sortedFrom(acc, s) ==
    IF s = <<>> THEN acc ELSE sortedFrom(insort(Head(s), acc), Tail(s))

\* sorted() left out: the list as the loop appended it
sorted_asAppended(s) == s

\* sorted(list of str)
sorted(s) == sortedFrom(<<>>, s)

RECURSIVE str(_)
\* str(int) of a non-negative integer: its decimal digits
str(n) ==
    IF n < 10 THEN <<Digits[n + 1]>>
    ELSE str(n \div 10) \o <<Digits[(n % 10) + 1]>>

RECURSIVE lstrip(_, _)
\* s.lstrip(c)
lstrip(s, c) ==
    IF s # <<>> /\ Head(s) = c THEN lstrip(Tail(s), c) ELSE s

RECURSIVE join(_, _)
\* sep.join(list)
join(sep, l) ==
    IF l = <<>> THEN <<>>
    ELSE IF Len(l) = 1 THEN l[1]
    ELSE l[1] \o sep \o join(sep, Tail(l))

RECURSIVE splitFrom(_, _, _)
splitFrom(cur, s, c) ==
    IF s = <<>> THEN <<cur>>
    ELSE IF Head(s) = c THEN <<cur>> \o splitFrom(<<>>, Tail(s), c)
    ELSE splitFrom(Append(cur, Head(s)), Tail(s), c)

\* s.split(c): always at least one token, "" included
split(s, c) == splitFrom(<<>>, s, c)

http == <<"h", "t", "t", "p", ":", "/", "/">>

(***************************************************************************)
(* Collaborators of the module                                             *)
(***************************************************************************)
\* mgr_util.build_url(host=, port=) with no scheme: "//host:port"
build_url(host, port) == <<"/", "/">> \o host \o <<":">> \o str(port)

\* mgr.inventory.get_addr
inventory(hostname) ==
    IF hostname = <<"a">> THEN <<"1", "0", ".", "9">> ELSE <<"1", "0", ".", "1">>

\* mgr.cache.get_daemons_by_type
get_daemons_by_type(c, t) == SelectSeq(c, LAMBDA dd : dd.daemon_type = t)

Hostnames == {<<"a">>, <<"b">>}

\* DaemonDescription: the fields the module reads
DaemonRecords ==
    [daemon_type : {JaegerCollectorTYPE}, hostname : Hostnames \cup {None},
     ip : {None}, ports : {<<>>}]
    \cup
    {[daemon_type |-> JaegerCollectorTYPE, hostname |-> <<"a">>, ip |-> None, ports |-> <<9, 10>>],
     [daemon_type |-> JaegerCollectorTYPE, hostname |-> <<"b">>, ip |-> None, ports |-> <<10, 9>>]}
    \cup
    {[daemon_type |-> ElasticSearchTYPE, hostname |-> <<"a">>, ip |-> None, ports |-> <<>>],
     [daemon_type |-> ElasticSearchTYPE, hostname |-> <<"b">>, ip |-> <<"1", "0", ".", "2">>, ports |-> <<>>],
     [daemon_type |-> ElasticSearchTYPE, hostname |-> <<"b">>, ip |-> None, ports |-> <<9, 10>>],
     [daemon_type |-> ElasticSearchTYPE, hostname |-> None, ip |-> None, ports |-> <<>>]}

ServiceNames == {"jaeger-collector", "jaeger-query"}

\* TracingSpec: the field the module reads
TracingSpecs ==
    {[es_nodes |-> None],
     [es_nodes |-> <<"b", ":", "9", ",", "a", ":", "9">>]}

\* The states of the spec store: a dict from service name to TracingSpec
SpecStores ==
    UNION {[names -> TracingSpecs] : names \in SUBSET ServiceNames}

EmptyConfig == {}
StaleConfig == {<<"stale", <<"a">>>>}

\* CephadmDaemonDeploySpec: the fields the module reads and writes
DaemonSpecs ==
    [daemon_type : DaemonTypes, service_name : ServiceNames,
     final_config : {EmptyConfig}, deps : {<<>>}]
    \cup
    [daemon_type : DaemonTypes, service_name : ServiceNames,
     final_config : {StaleConfig}, deps : {<<<<"a">>>>}]

NoDaemonSpec ==
    [daemon_type |-> "none", service_name |-> "none", final_config |-> {}, deps |-> <<>>]

(***************************************************************************)
(* jaeger.py                                                               *)
(***************************************************************************)
\* dd.ports[-1] in place of dd.ports[0]
PortOf_lastPort(dd, default) == IF dd.ports # <<>> THEN dd.ports[Len(dd.ports)] ELSE default

\* port = dd.ports[0] if dd.ports else DEFAULT_SERVICE_PORT
PortOf(dd, default) == IF dd.ports # <<>> THEN dd.ports[1] ELSE default

\* url = build_url(host=..., port=port).lstrip('/')
UrlOf(host, port) == lstrip(build_url(host, port), "/")

RECURSIVE CollectorUrls(_, _)
\* the loop over the jaeger-collector daemons, shared text of
\* get_dependencies and JaegerAgentService.prepare_create
CollectorUrls(dds, acc) ==
    IF dds = <<>> THEN [err |-> "none", urls |-> acc]
    ELSE LET dd == Head(dds) IN
         IF dd.hostname = None
         THEN [err |-> "InvariantViolation", urls |-> acc]
         ELSE CollectorUrls(Tail(dds),
                  Append(acc, UrlOf(dd.hostname,
                                    PortOf(dd, JaegerCollectorDEFAULT_SERVICE_PORT))))

\* JaegerAgentService.get_dependencies
get_dependencies(c) ==
    LET loop == CollectorUrls(get_daemons_by_type(c, JaegerCollectorTYPE), <<>>)
    IN  IF loop.err # "none"
        THEN [err |-> loop.err, ret |-> NoRet]
        ELSE [err |-> "none", ret |-> sorted(loop.urls)]

\* JaegerAgentService.prepare_create
AgentPrepare(c, ds) ==
    IF ds.daemon_type # JaegerAgentTYPE
    THEN [err |-> "TypeMismatch", ds |-> ds]
    ELSE LET loop == CollectorUrls(get_daemons_by_type(c, JaegerCollectorTYPE), <<>>) IN
         IF loop.err # "none"
         THEN [err |-> loop.err, ds |-> ds]
         ELSE LET ds1 == [ds EXCEPT !.final_config =
                              {<<"collector_nodes", join(<<",">>, loop.urls)>>}]
                  gd == get_dependencies(c)
              IN  IF gd.err # "none"
                  THEN [err |-> gd.err, ds |-> ds1]
                  ELSE [err |-> "none", ds |-> [ds1 EXCEPT !.deps = gd.ret]]

\* the inventory asked for every record, dd.ip ignored
EsAddr_alwaysInventory(dd) ==
    [addr |-> inventory(dd.hostname), looked |-> {dd.hostname}]

\* addr = dd.ip if dd.ip else service.mgr.inventory.get_addr(dd.hostname)
EsAddr(dd) ==
    IF dd.ip # None
    THEN [addr |-> dd.ip, looked |-> {}]
    ELSE [addr |-> inventory(dd.hostname), looked |-> {dd.hostname}]

RECURSIVE EsLoop(_, _, _)
\* the loop of get_elasticsearch_nodes over the elasticsearch daemons
EsLoop(dds, acc, looked) ==
    IF dds = <<>> THEN [err |-> "none", nodes |-> acc, inv |-> looked]
    ELSE LET dd == Head(dds) IN
         IF dd.hostname = None
         THEN [err |-> "InvariantViolation", nodes |-> acc, inv |-> looked]
         ELSE LET a == EsAddr(dd)
                  port == PortOf(dd, ElasticSearchDEFAULT_SERVICE_PORT)
              IN  EsLoop(Tail(dds),
                         Append(acc, http \o UrlOf(a.addr, port)),
                         looked \cup a.looked)

RECURSIVE PrefixAll(_)
\* for url in urls: elasticsearch_nodes.append(f'http://{url}')
PrefixAll(urls) ==
    IF urls = <<>> THEN <<>> ELSE <<http \o Head(urls)>> \o PrefixAll(Tail(urls))

\* the fallback list sorted like the dependency list
EsFallback_sorted(es_nodes) == sorted(PrefixAll(split(es_nodes, ",")))

\* urls = spec.es_nodes.split(","), each appended with its prefix
EsFallback(es_nodes) == PrefixAll(split(es_nodes, ","))

\* the assert on spec.es_nodes left out, None read as no nodes
EsFromSpec_noAssert(spec) ==
    IF spec.es_nodes = None
    THEN [err |-> "none", ret |-> <<>>]
    ELSE [err |-> "none", ret |-> PrefixAll(split(spec.es_nodes, ","))]

\* the fallback of get_elasticsearch_nodes once the TracingSpec is found
EsFromSpec(spec) ==
    IF spec.es_nodes = None
    THEN [err |-> "MissingConfiguration", ret |-> NoRet]
    ELSE [err |-> "none", ret |-> EsFallback(spec.es_nodes)]

\* the TracingSpec looked up before the daemons are scanned
get_elasticsearch_nodes_specFirst(c, specs, ds) ==
    LET loop == EsLoop(get_daemons_by_type(c, ElasticSearchTYPE), <<>>, {}) IN
    IF ds.service_name \notin DOMAIN specs
    THEN [err |-> "KeyError", ret |-> NoRet, inv |-> {}, spec |-> {ds.service_name}]
    ELSE IF loop.err # "none"
    THEN [err |-> loop.err, ret |-> NoRet, inv |-> loop.inv, spec |-> {ds.service_name}]
    ELSE IF Len(loop.nodes) = 0
    THEN LET r == EsFromSpec(specs[ds.service_name])
         IN  [err |-> r.err, ret |-> r.ret, inv |-> loop.inv,
              spec |-> {ds.service_name}]
    ELSE [err |-> "none", ret |-> loop.nodes, inv |-> loop.inv,
          spec |-> {ds.service_name}]

\* get_elasticsearch_nodes
get_elasticsearch_nodes(c, specs, ds) ==
    LET loop == EsLoop(get_daemons_by_type(c, ElasticSearchTYPE), <<>>, {}) IN
    IF loop.err # "none"
    THEN [err |-> loop.err, ret |-> NoRet, inv |-> loop.inv, spec |-> {}]
    ELSE IF Len(loop.nodes) = 0
    THEN IF ds.service_name \notin DOMAIN specs
         THEN [err |-> "KeyError", ret |-> NoRet, inv |-> loop.inv,
               spec |-> {ds.service_name}]
         ELSE LET r == EsFromSpec(specs[ds.service_name])
              IN  [err |-> r.err, ret |-> r.ret, inv |-> loop.inv,
                   spec |-> {ds.service_name}]
    ELSE [err |-> "none", ret |-> loop.nodes, inv |-> loop.inv, spec |-> {}]

\* final_config initialised before the nodes are resolved
CollectorPrepare_writeFirst(c, specs, ds) ==
    IF ds.daemon_type # JaegerCollectorTYPE
    THEN [err |-> "TypeMismatch", ds |-> ds, ret |-> NoRet, inv |-> {}, spec |-> {}]
    ELSE LET ds1 == [ds EXCEPT !.final_config = {<<"elasticsearch_nodes", <<>>>>}]
             r == get_elasticsearch_nodes(c, specs, ds)
         IN  IF r.err # "none"
             THEN [err |-> r.err, ds |-> ds1, ret |-> NoRet, inv |-> r.inv, spec |-> r.spec]
             ELSE [err |-> "none",
                   ds |-> [ds EXCEPT !.final_config =
                               {<<"elasticsearch_nodes", join(<<",">>, r.ret)>>}],
                   ret |-> r.ret, inv |-> r.inv, spec |-> r.spec]

\* JaegerCollectorService.prepare_create
CollectorPrepare(c, specs, ds) ==
    IF ds.daemon_type # JaegerCollectorTYPE
    THEN [err |-> "TypeMismatch", ds |-> ds, ret |-> NoRet, inv |-> {}, spec |-> {}]
    ELSE LET r == get_elasticsearch_nodes(c, specs, ds) IN
         IF r.err # "none"
         THEN [err |-> r.err, ds |-> ds, ret |-> NoRet, inv |-> r.inv, spec |-> r.spec]
         ELSE [err |-> "none",
               ds |-> [ds EXCEPT !.final_config =
                           {<<"elasticsearch_nodes", join(<<",">>, r.ret)>>}],
               ret |-> r.ret, inv |-> r.inv, spec |-> r.spec]

\* the query builder joining the nodes in sorted order
QueryPrepare_sorted(c, specs, ds) ==
    IF ds.daemon_type # JaegerQueryTYPE
    THEN [err |-> "TypeMismatch", ds |-> ds, ret |-> NoRet, inv |-> {}, spec |-> {}]
    ELSE LET r == get_elasticsearch_nodes(c, specs, ds) IN
         IF r.err # "none"
         THEN [err |-> r.err, ds |-> ds, ret |-> NoRet, inv |-> r.inv, spec |-> r.spec]
         ELSE [err |-> "none",
               ds |-> [ds EXCEPT !.final_config =
                           {<<"elasticsearch_nodes", join(<<",">>, sorted(r.ret))>>}],
               ret |-> r.ret, inv |-> r.inv, spec |-> r.spec]

\* JaegerQueryService.prepare_create
QueryPrepare(c, specs, ds) ==
    IF ds.daemon_type # JaegerQueryTYPE
    THEN [err |-> "TypeMismatch", ds |-> ds, ret |-> NoRet, inv |-> {}, spec |-> {}]
    ELSE LET r == get_elasticsearch_nodes(c, specs, ds) IN
         IF r.err # "none"
         THEN [err |-> r.err, ds |-> ds, ret |-> NoRet, inv |-> r.inv, spec |-> r.spec]
         ELSE [err |-> "none",
               ds |-> [ds EXCEPT !.final_config =
                           {<<"elasticsearch_nodes", join(<<",">>, r.ret)>>}],
               ret |-> r.ret, inv |-> r.inv, spec |-> r.spec]

\* ElasticSearchService.prepare_create
ElasticSearchPrepare(ds) ==
    IF ds.daemon_type # ElasticSearchTYPE
    THEN [err |-> "TypeMismatch", ds |-> ds]
    ELSE [err |-> "none", ds |-> ds]

(***************************************************************************)
(* The state machine                                                       *)
(***************************************************************************)
Init ==
    /\ cache = <<>>
    /\ active_specs = [sn \in {} |-> None]
    /\ lastOp = "none"
    /\ arg = NoDaemonSpec
    /\ daemon_spec = NoDaemonSpec
    /\ ret = NoRet
    /\ err = "none"
    /\ inv_lookups = {}
    /\ spec_lookups = {}
    /\ last_deps = NoRet

Idle == lastOp = "none"

\* The results of a call are the caller's; nothing of them stays in the module.
NoCall ==
    /\ lastOp' = "none"
    /\ arg' = NoDaemonSpec
    /\ daemon_spec' = NoDaemonSpec
    /\ ret' = NoRet
    /\ err' = "none"
    /\ inv_lookups' = {}
    /\ spec_lookups' = {}

\* The orchestrator places a daemon; the cache may return it at any position.
CacheAdd ==
    /\ Idle
    /\ Len(cache) < MaxDaemons
    /\ \E dd \in DaemonRecords, i \in 0..Len(cache) :
           cache' = SubSeq(cache, 1, i) \o <<dd>> \o SubSeq(cache, i + 1, Len(cache))
    /\ last_deps' = NoRet
    /\ UNCHANGED <<active_specs, lastOp, arg, daemon_spec, ret, err,
                   inv_lookups, spec_lookups>>

\* The orchestrator removes a daemon.
CacheRemove ==
    /\ Idle
    /\ \E i \in 1..Len(cache) :
           cache' = SubSeq(cache, 1, i - 1) \o SubSeq(cache, i + 1, Len(cache))
    /\ last_deps' = NoRet
    /\ UNCHANGED <<active_specs, lastOp, arg, daemon_spec, ret, err,
                   inv_lookups, spec_lookups>>

\* The administrator applies, changes or removes tracing specs.
SpecStoreSet ==
    /\ Idle
    /\ \E store \in SpecStores :
           /\ store # active_specs
           /\ active_specs' = store
    /\ last_deps' = NoRet
    /\ UNCHANGED <<cache, lastOp, arg, daemon_spec, ret, err,
                   inv_lookups, spec_lookups>>

\* The serve loop polls the dependencies of the jaeger-agent daemons.
GetDependencies ==
    /\ Idle
    /\ LET r == get_dependencies(cache) IN
        /\ lastOp' = "get_dependencies"
        /\ ret' = r.ret
        /\ err' = r.err
    /\ UNCHANGED <<cache, active_specs, arg, daemon_spec, inv_lookups,
                   spec_lookups, last_deps>>

AgentPrepareCreate ==
    /\ Idle
    /\ \E ds \in DaemonSpecs :
        LET r == AgentPrepare(cache, ds) IN
        /\ lastOp' = "agent_prepare_create"
        /\ arg' = ds
        /\ daemon_spec' = r.ds
        /\ err' = r.err
    /\ UNCHANGED <<cache, active_specs, ret, inv_lookups, spec_lookups, last_deps>>

CollectorPrepareCreate ==
    /\ Idle
    /\ \E ds \in DaemonSpecs :
        LET r == CollectorPrepare(cache, active_specs, ds) IN
        /\ lastOp' = "collector_prepare_create"
        /\ arg' = ds
        /\ daemon_spec' = r.ds
        /\ err' = r.err
        /\ ret' = r.ret
        /\ inv_lookups' = r.inv
        /\ spec_lookups' = r.spec
    /\ UNCHANGED <<cache, active_specs, last_deps>>

QueryPrepareCreate ==
    /\ Idle
    /\ \E ds \in DaemonSpecs :
        LET r == QueryPrepare(cache, active_specs, ds) IN
        /\ lastOp' = "query_prepare_create"
        /\ arg' = ds
        /\ daemon_spec' = r.ds
        /\ err' = r.err
        /\ ret' = r.ret
        /\ inv_lookups' = r.inv
        /\ spec_lookups' = r.spec
    /\ UNCHANGED <<cache, active_specs, last_deps>>

ElasticSearchPrepareCreate ==
    /\ Idle
    /\ \E ds \in DaemonSpecs :
        LET r == ElasticSearchPrepare(ds) IN
        /\ lastOp' = "elasticsearch_prepare_create"
        /\ arg' = ds
        /\ daemon_spec' = r.ds
        /\ err' = r.err
    /\ UNCHANGED <<cache, active_specs, ret, inv_lookups, spec_lookups, last_deps>>

\* The call returns or raises to the orchestrator, which keeps the dependency
\* list it was given to compare the next one against.
Return ==
    /\ ~Idle
    /\ last_deps' =
           IF err # "none" THEN last_deps
           ELSE IF lastOp = "get_dependencies" THEN ret
           ELSE IF lastOp = "agent_prepare_create" THEN daemon_spec.deps
           ELSE last_deps
    /\ NoCall
    /\ UNCHANGED <<cache, active_specs>>

Next ==
    \/ CacheAdd
    \/ CacheRemove
    \/ SpecStoreSet
    \/ GetDependencies
    \/ AgentPrepareCreate
    \/ CollectorPrepareCreate
    \/ QueryPrepareCreate
    \/ ElasticSearchPrepareCreate
    \/ Return

Spec == Init /\ [][Next]_vars

(***************************************************************************)
(* Vocabulary of the properties                                            *)
(***************************************************************************)
Collectors == get_daemons_by_type(cache, JaegerCollectorTYPE)
ElasticSearches == get_daemons_by_type(cache, ElasticSearchTYPE)

\* get_elasticsearch_nodes ran: the builder was called with its own daemon type
EsResolved ==
    \/ lastOp = "collector_prepare_create" /\ arg.daemon_type = JaegerCollectorTYPE
    \/ lastOp = "query_prepare_create" /\ arg.daemon_type = JaegerQueryTYPE

IsSortedAsc(l) == \A i, j \in 1..Len(l) : i < j => ~StrLess(l[j], l[i])

\* the value stored under key in a final_config
ConfigValue(cfg, key) == (CHOOSE kv \in cfg : kv[1] = key)[2]

\* the orders in which the cache may return the records of c
Permutations(c) ==
    {[i \in 1..Len(c) |-> c[f[i]]] :
         f \in {g \in [1..Len(c) -> 1..Len(c)] :
                    \A a, b \in 1..Len(c) : g[a] = g[b] => a = b}}

LastColon(url) ==
    CHOOSE k \in 1..Len(url) :
        url[k] = ":" /\ \A m \in (k + 1)..Len(url) : url[m] # ":"

RECURSIVE DecimalValue(_)
DecimalValue(d) ==
    IF d = <<>> THEN 0
    ELSE 10 * DecimalValue(SubSeq(d, 1, Len(d) - 1))
         + (CHOOSE n \in 0..9 : Digits[n + 1] = d[Len(d)])

\* the port and the host an endpoint string names
PortIn(url) == DecimalValue(SubSeq(url, LastColon(url) + 1, Len(url)))
HostIn(url) == SubSeq(url, 1, LastColon(url) - 1)

HasHttp(url) == Len(url) >= Len(http) /\ SubSeq(url, 1, Len(http)) = http
WithoutHttp(url) == SubSeq(url, Len(http) + 1, Len(url))

\* one endpoint per record, carrying ports[0], or default when there are no ports
OnePortEach(urls, dds, default) ==
    /\ Len(urls) = Len(dds)
    /\ \A p \in {PortIn(urls[i]) : i \in 1..Len(urls)} \cup {default}
               \cup UNION {{dd.ports[k] : k \in 1..Len(dd.ports)} : dd \in DaemonRecords} :
           Cardinality({i \in 1..Len(urls) : PortIn(urls[i]) = p})
           = Cardinality({i \in 1..Len(dds) :
                 (IF Len(dds[i].ports) = 0 THEN default ELSE Head(dds[i].ports)) = p})

(***************************************************************************)
(* Properties                                                              *)
(***************************************************************************)

\* C1: JaegerAgentService.prepare_create sets final_config['collector_nodes']
\* to the comma-join of the collectors' host:port strings in ascending
\* lexicographic order, whatever the order the cache returns them in.
C1_CollectorNodesSorted ==
    (lastOp = "agent_prepare_create" /\ err = "none") =>
        /\ IsSortedAsc(split(ConfigValue(daemon_spec.final_config, "collector_nodes"), ","))
        /\ \A c \in Permutations(cache) :
               AgentPrepare(c, arg).ds.final_config = daemon_spec.final_config

\* C2: get_dependencies returns the collector endpoints in ascending
\* lexicographic order, returns the same list for every order in which the
\* cache may return the same records, and returns the list of the preceding
\* call when the snapshot has not changed.
C2_DependenciesSortedAndStable ==
    (lastOp = "get_dependencies" /\ err = "none") =>
        /\ IsSortedAsc(ret)
        /\ \A c \in Permutations(cache) :
               get_dependencies(c) = [err |-> "none", ret |-> ret]
        /\ last_deps # NoRet => ret = last_deps

C2_Witness ==
    /\ lastOp = "get_dependencies" /\ err = "none"
    /\ Len(Collectors) = 2
    /\ StrLess(UrlOf(Collectors[2].hostname, PortOf(Collectors[2], 14250)),
               UrlOf(Collectors[1].hostname, PortOf(Collectors[1], 14250)))
    /\ last_deps = ret

\* C3: in every resolver each daemon record contributes exactly one endpoint,
\* whose port is ports[0] when the record has ports and the default port of
\* the queried type (14250 for collectors, 9200 for elasticsearch) when not.
C3_FirstPortOrDefault ==
    /\ (lastOp = "get_dependencies" /\ err = "none")
           => OnePortEach(ret, Collectors, 14250)
    /\ (lastOp = "agent_prepare_create" /\ err = "none" /\ Collectors # <<>>)
           => OnePortEach(split(ConfigValue(daemon_spec.final_config, "collector_nodes"), ","),
                          Collectors, 14250)
    /\ (EsResolved /\ err = "none" /\ ElasticSearches # <<>>)
           => OnePortEach(ret, ElasticSearches, 9200)

C3_Witness ==
    /\ EsResolved /\ err = "none"
    /\ Len(ElasticSearches) = 2
    /\ \E i, j \in 1..2 : /\ Len(ElasticSearches[i].ports) = 2
                          /\ ElasticSearches[j].ports = <<>>

\* C4: with no elasticsearch daemon and es_nodes set, get_elasticsearch_nodes
\* returns one entry per comma-separated token of es_nodes, each prefixed with
\* "http://", in the order of the tokens in es_nodes.
C4_FallbackKeepsOrder ==
    (/\ EsResolved
     /\ ElasticSearches = <<>>
     /\ arg.service_name \in DOMAIN active_specs
     /\ active_specs[arg.service_name].es_nodes # None) =>
        LET es_nodes == active_specs[arg.service_name].es_nodes IN
        /\ err = "none"
        /\ Len(ret) = 1 + Cardinality({i \in 1..Len(es_nodes) : es_nodes[i] = ","})
        /\ \A i \in 1..Len(ret) : HasHttp(ret[i])
        /\ join(<<",">>, [i \in 1..Len(ret) |-> WithoutHttp(ret[i])]) = es_nodes

C4_Witness ==
    /\ EsResolved /\ err = "none"
    /\ ElasticSearches = <<>>
    /\ Len(ret) = 2
    /\ StrLess(ret[2], ret[1])

\* C5: with no elasticsearch daemon and es_nodes unset in the active
\* TracingSpec, the collector builder and the query builder fail with
\* MissingConfiguration and return no result.
C5_MissingConfiguration ==
    (/\ EsResolved
     /\ ElasticSearches = <<>>
     /\ arg.service_name \in DOMAIN active_specs
     /\ active_specs[arg.service_name].es_nodes = None) =>
        /\ err = "MissingConfiguration"
        /\ ret = NoRet

C5_Witness ==
    /\ lastOp = "query_prepare_create"
    /\ err = "MissingConfiguration"
    /\ ElasticSearches = <<>>

\* C6: for every elasticsearch daemon record the endpoint host is the
\* record's ip when it has one and the inventory address of its hostname when
\* it has none, and the inventory is asked only for records without ip.
C6_IpBeforeInventory ==
    EsResolved =>
        /\ inv_lookups \subseteq
               {ElasticSearches[i].hostname :
                    i \in {k \in 1..Len(ElasticSearches) : ElasticSearches[k].ip = None}}
        /\ (err = "none" /\ ElasticSearches # <<>>) =>
               /\ Len(ret) = Len(ElasticSearches)
               /\ \A i \in 1..Len(ret) :
                      LET dd == ElasticSearches[i] IN
                      /\ HostIn(WithoutHttp(ret[i])) =
                             (IF dd.ip # None THEN dd.ip ELSE inventory(dd.hostname))
                      /\ dd.ip = None => dd.hostname \in inv_lookups

C6_Witness ==
    /\ EsResolved /\ err = "none"
    /\ Len(ElasticSearches) = 2
    /\ ElasticSearches[1].ip # None
    /\ ElasticSearches[2].ip = None
    /\ ElasticSearches[2].hostname = ElasticSearches[1].hostname

\* C7: with at least one elasticsearch daemon, the endpoint list the collector
\* and query builders join into final_config['elasticsearch_nodes'] is in
\* ascending lexicographic order, whatever the order the cache returns the
\* records in.
C7_ElasticsearchNodesSorted ==
    (EsResolved /\ err = "none" /\ ElasticSearches # <<>>) => IsSortedAsc(ret)

\* C8: a builder call that fails leaves the final_config and the deps of the
\* daemon_spec as they were passed in.
C8_FailureWritesNothing ==
    (lastOp \in {"agent_prepare_create", "collector_prepare_create",
                 "query_prepare_create", "elasticsearch_prepare_create"}
     /\ err # "none") =>
        /\ daemon_spec.final_config = arg.final_config
        /\ daemon_spec.deps = arg.deps

C8_Witness ==
    /\ lastOp = "collector_prepare_create"
    /\ err = "MissingConfiguration"
    /\ arg.final_config = StaleConfig
    /\ daemon_spec.final_config = StaleConfig

\* C9: with at least one elasticsearch daemon, get_elasticsearch_nodes never
\* looks into the spec store: its outcome is the same for every content of the
\* store, it never fails for want of a spec or of es_nodes, and what it
\* returns is exactly one "http://"-prefixed entry per elasticsearch daemon.
C9_LiveDaemonsIgnoreSpecStore ==
    (EsResolved /\ ElasticSearches # <<>>) =>
        /\ spec_lookups = {}
        /\ err = (IF \E i \in 1..Len(ElasticSearches) : ElasticSearches[i].hostname = None
                  THEN "InvariantViolation" ELSE "none")
        /\ \A store \in SpecStores :
               LET r == get_elasticsearch_nodes(cache, store, arg)
               IN  r.err = err /\ r.ret = ret
        /\ err = "none" =>
               /\ Len(ret) = Len(ElasticSearches)
               /\ \A i \in 1..Len(ret) : HasHttp(ret[i])

C9_Witness ==
    /\ EsResolved /\ err = "none"
    /\ Len(ElasticSearches) = 1
    /\ arg.service_name \notin DOMAIN active_specs
    /\ \E sn \in DOMAIN active_specs : active_specs[sn].es_nodes # None

\* a jaeger-query (or jaeger-collector) daemon_spec that differs from ds in
\* daemon type and service name only, and resolves to the same TracingSpec
Counterparts(ds, type) ==
    {d \in DaemonSpecs :
        /\ d.daemon_type = type
        /\ d.final_config = ds.final_config
        /\ d.deps = ds.deps
        /\ (d.service_name \in DOMAIN active_specs) = (ds.service_name \in DOMAIN active_specs)
        /\ d.service_name \in DOMAIN active_specs
               => active_specs[d.service_name] = active_specs[ds.service_name]}

SameOutcome(r) ==
    /\ r.err = err
    /\ r.ds.final_config = daemon_spec.final_config
    /\ r.ds.deps = daemon_spec.deps

\* C10: on the same snapshot the collector builder, given a jaeger-collector
\* daemon_spec, and the query builder, given a jaeger-query daemon_spec that
\* resolves to the same TracingSpec, both fail or both set final_config to the
\* same map with the one key 'elasticsearch_nodes' and leave deps alone.
C10_CollectorAndQueryAgree ==
    /\ (lastOp = "collector_prepare_create" /\ arg.daemon_type = JaegerCollectorTYPE) =>
           \A d \in Counterparts(arg, JaegerQueryTYPE) :
               SameOutcome(QueryPrepare(cache, active_specs, d))
    /\ (lastOp = "query_prepare_create" /\ arg.daemon_type = JaegerQueryTYPE) =>
           \A d \in Counterparts(arg, JaegerCollectorTYPE) :
               SameOutcome(CollectorPrepare(cache, active_specs, d))
    /\ (EsResolved /\ err = "none") =>
           /\ Cardinality(daemon_spec.final_config) = 1
           /\ \A kv \in daemon_spec.final_config : kv[1] = "elasticsearch_nodes"
           /\ daemon_spec.deps = arg.deps

C10_Witness ==
    /\ lastOp = "query_prepare_create" /\ err = "none"
    /\ arg.service_name = "jaeger-query"
    /\ Len(ElasticSearches) = 2
    /\ ~IsSortedAsc(ret)
    /\ \E d \in Counterparts(arg, JaegerCollectorTYPE) : d.service_name = "jaeger-collector"

TypeOK ==
    /\ Len(cache) <= MaxDaemons
    /\ err \in {"none", "TypeMismatch", "InvariantViolation", "MissingConfiguration", "KeyError"}

====
